---------------------------- MODULE Spec2Model ----------------------------
(***************************************************************************)
(* Model of the ingest job-lifecycle pipeline: the Intake Gateway          *)
(* (ingest-on-done-create-job), the State Transition Recorder              *)
(* (ingest-update-job-state), the Manifest Writer (ingest-write-manifest),  *)
(* the Folder Validator (ingest-validate-files) and the collaborators they *)
(* call (record store, orchestrator, object store, clock).                 *)
(*                                                                         *)
(* Strings the handlers parse are sequences of one-character strings, so   *)
(* that endswith / rsplit / split / unquote_plus are computed as the code  *)
(* computes them.  An attribute a record does not carry is None (text),    *)
(* NoTs (timestamps), NoRef (structured values) or <<>> (state_history).   *)
(***************************************************************************)
EXTENDS Integers, Sequences, FiniteSets, TLC

VARIABLES
    config,      \* the environment: MANIFEST_BUCKET (None when unset)
    clock,       \* the wall clock read by now_iso()
    table,       \* the job table: job_id -> item
    executions,  \* the orchestrator: execution name -> execution input
    objects,     \* the object store: <<bucket, key>> -> manifest document
    intake,      \* Intake Gateway invocations: slot -> local state
    recorder,    \* State Transition Recorder invocations: slot -> local state
    writer,      \* Manifest Writer invocations: slot -> local state
    tally,       \* per job_id: what the Intake Gateway invocations did so far
    folder,      \* the objects the store lists under the folder, in listing order
    validator_env, \* the Folder Validator's environment: MAX_KEYS, ALLOW_ZERO_BYTE
    validator    \* the Folder Validator invocation: its local state

\* The Folder Validator's part of the state.
validation == <<folder, validator_env, validator>>

vars == <<config, clock, table, executions, objects, intake, recorder, writer, tally,
          validation>>

(***************************************************************************)
(* Bounds of the model.                                                    *)
(***************************************************************************)
NumIntake == 2      \* marker deliveries (each is retried as often as it fails)
NumRecorder == 2    \* State Transition Recorder invocations
NumWriter == 2      \* Manifest Writer invocations
MaxClock == 1       \* the clock takes the values 0..MaxClock
MaxKeyTokens == 3   \* tokens before the marker name in the keys of SpecIdentity
MaxObjects == 3     \* objects the store lists under the folder
MaxCap == 2         \* MAX_KEYS takes the values 1..MaxCap

Invocations == 1..NumIntake
RecorderCalls == 1..NumRecorder
WriterCalls == 1..NumWriter

None == "none"
NoTs == 0 - 1
NoRef == <<>>
NoJob == [sha256 |-> <<>>]

(***************************************************************************)
(* String helpers, as Python computes them.                                *)
(***************************************************************************)
\* Mutant: every key passes for a marker.
EndsWithAlways(s, suf) == TRUE

EndsWith(s, suf) ==
    /\ Len(s) >= Len(suf)
    /\ SubSeq(s, Len(s) - Len(suf) + 1, Len(s)) = suf

Contains(s, c) == \E k \in 1..Len(s) : s[k] = c

FirstIndexOf(s, c) == CHOOSE k \in 1..Len(s) : s[k] = c /\ \A m \in 1..(k-1) : s[m] # c

LastIndexOf(s, c) == CHOOSE k \in 1..Len(s) : s[k] = c /\ \A m \in (k+1)..Len(s) : s[m] # c

\* s.rsplit(c, 1)[0]
RSplitHead(s, c) == IF Contains(s, c) THEN SubSeq(s, 1, LastIndexOf(s, c) - 1) ELSE s

\* s.split(c, 1)[0]
SplitHead(s, c) == IF Contains(s, c) THEN SubSeq(s, 1, FirstIndexOf(s, c) - 1) ELSE s

\* urllib.parse.unquote_plus on the characters of the model: '+' becomes a
\* space and the escape %2F becomes '/'; a '%' that starts no escape is kept.
RECURSIVE unquote_plus(_)
unquote_plus(s) ==
    IF s = <<>> THEN <<>>
    ELSE IF s[1] = "+" THEN <<" ">> \o unquote_plus(Tail(s))
    ELSE IF Len(s) >= 3 /\ SubSeq(s, 1, 3) = <<"%", "2", "F">>
        THEN <<"/">> \o unquote_plus(SubSeq(s, 4, Len(s)))
    ELSE <<s[1]>> \o unquote_plus(Tail(s))

MarkerSuffix == <<"_", "I", "N", "G", "E", "S", "T", "_", "D", "O", "N", "E">>

(***************************************************************************)
(* Job identity (handler lines 49-52).                                     *)
(***************************************************************************)
\* Mutant: the folder is cut at the first separator.
folder_pathFirstSeparator(object_key) == SplitHead(object_key, "/") \o <<"/">>

folder_path(object_key) == RSplitHead(object_key, "/") \o <<"/">>

project_code(fp) == SplitHead(fp, "/")

\* sha256 is modelled as an injective function of the string it hashes.
generate_job_id(pc, fp) == [sha256 |-> pc \o <<":">> \o fp]

(***************************************************************************)
(* The notifications delivered to the Intake Gateway.                      *)
(***************************************************************************)
Notification(b, k) == [wellformed |-> TRUE, bucket |-> b, key |-> k]

KeyA == <<"a", "/">> \o MarkerSuffix
KeyAx == <<"a", "/", "x">> \o MarkerSuffix
KeyAB == <<"a", "/", "b", "/">> \o MarkerSuffix
KeyRoot == MarkerSuffix
KeyFile == <<"a", "/", "f">>

Malformed == [wellformed |-> FALSE, bucket |-> None, key |-> <<>>]

\* Two markers of folder a/ (other marker name, other bucket), one of folder
\* a/b/, a marker at the root, a payload object, a notification without
\* records.
Deliveries ==
    { Notification("b1", KeyA), Notification("b2", KeyAx), Notification("b1", KeyAB),
      Notification("b1", KeyRoot), Notification("b1", KeyFile), Malformed }

\* Keys for the identity checks: up to MaxKeyTokens tokens (a letter, a
\* separator, a colon, an escaped separator), then the marker suffix; the
\* tokens after the last separator make the marker object's name.
KeyTokens == { <<"a">>, <<"/">>, <<":">>, <<"%", "2", "F">> }

RECURSIVE KeyPrefixes(_)
KeyPrefixes(n) ==
    IF n = 0 THEN { <<>> }
    ELSE KeyPrefixes(n - 1) \cup { p \o t : p \in KeyPrefixes(n - 1), t \in KeyTokens }

ProbeDeliveries ==
    { Notification("b1", p \o MarkerSuffix) : p \in KeyPrefixes(MaxKeyTokens) }

IsMarker(ev) ==
    /\ ev.wellformed
    /\ EndsWith(unquote_plus(ev.key), MarkerSuffix)
    /\ Contains(unquote_plus(ev.key), "/")

JobIdOfKey(object_key) ==
    generate_job_id(project_code(folder_path(object_key)), folder_path(object_key))

JobIds == { JobIdOfKey(unquote_plus(ev.key)) : ev \in { d \in Deliveries : IsMarker(d) } }


(***************************************************************************)
(* The record store (DynamoDB table keyed by job_id).                      *)
(***************************************************************************)
\* f"s3://{bucket}/{path}": ingest_folder (create-job handler line 58) and
\* manifest_s3_uri (write-manifest handler line 104).
S3Uri(bucket, path) == [scheme |-> "s3", bucket |-> bucket, path |-> path]

\* Mutant: the key also names the time of the run.
ManifestKeyPerRun(pcode, j) ==
    [project_code |-> pcode, dir |-> "_manifests",
     job_id |-> [sha256 |-> j.sha256 \o << IF clock = 0 THEN "0" ELSE "1" >>]]

\* manifest_key = f"{project_code}/_manifests/{job_id}.json", write-manifest
\* handler line 103.
ManifestKey(pcode, j) == [project_code |-> pcode, dir |-> "_manifests", job_id |-> j]

\* An item carrying no attribute but its key: what update_item starts from
\* when the key is absent.
BlankItem(j) ==
    [ job_id |-> j, project_code |-> NoRef, ingest_folder |-> S3Uri(None, NoRef),
      state |-> None, trigger |-> None, created_at |-> NoTs, last_seen_at |-> NoTs,
      last_seen_object_key |-> NoRef, ruleset_version |-> None, updated_at |-> NoTs,
      state_history |-> <<>>, manifest_s3_uri |-> S3Uri(None, ManifestKey(NoRef, NoJob)),
      manifest_bucket |-> None, manifest_key |-> ManifestKey(NoRef, NoJob),
      start_error |-> None ]

Exists(j) == j \in DOMAIN table

ItemOrBlank(j) == IF Exists(j) THEN table[j] ELSE BlankItem(j)

\* table with the item of key j replaced (or inserted).
Stored(j, item) == [k \in DOMAIN table \cup {j} |-> IF k = j THEN item ELSE table[k]]

\* job_item, handler lines 55-65 (inv: the invocation's local variables).
JobItem(inv) ==
    [ BlankItem(inv.job_id) EXCEPT
        !.project_code = inv.project_code,
        !.ingest_folder = S3Uri(inv.bucket, inv.folder_path),
        !.state = "CREATED",
        !.trigger = "_INGEST_DONE",
        !.created_at = inv.ts,
        !.last_seen_at = inv.ts,
        !.last_seen_object_key = inv.object_key,
        !.ruleset_version = "v1.0" ]

\* Mutant: the create is not conditional (a plain put_item).
ConditionHoldsAlways(j) == TRUE

\* ConditionExpression attribute_not_exists(job_id), handler lines 70-74.
ConditionHolds(j) == ~Exists(j)

(***************************************************************************)
(* The orchestrator (Step Functions): executions are named, and a start    *)
(* under a name that has an execution creates no second one.               *)
(***************************************************************************)
\* name=job_id, handler line 113.
ExecutionName(inv) == inv.job_id

\* execution_input, handler lines 99-108 (created_at is job_item's, which is
\* current_ts: inv.ts until the handler reads the clock again at line 134).
ExecutionInput(inv) ==
    [ job_id |-> inv.job_id,
      project_code |-> inv.project_code,
      bucket |-> inv.bucket,
      object_key |-> inv.object_key,
      folder_path |-> inv.folder_path,
      ingest_folder |-> S3Uri(inv.bucket, inv.folder_path),
      trigger |-> "_INGEST_DONE",
      created_at |-> inv.ts ]

RunsOf(j) == { n \in DOMAIN executions : executions[n].job_id = j }

(***************************************************************************)
(* Intake Gateway: one invocation per slot.                                *)
(*   pc: idle -> put -> (dup | start) -> (mark) -> done | failed           *)
(* A slot holds the handler's local variables; they are dropped when the   *)
(* handler returns (done).  A handler that raised (failed) leaves the      *)
(* notification with the delivery layer, which delivers it again.          *)
(***************************************************************************)
IdleInvocation ==
    [ pc |-> "idle", event |-> Malformed, bucket |-> None, object_key |-> NoRef,
      folder_path |-> NoRef, project_code |-> NoRef, job_id |-> NoJob,
      ts |-> NoTs, created_new |-> FALSE, status |-> None ]

Returned(status) == [IdleInvocation EXCEPT !.pc = "done", !.status = status]

Raised(inv, status) == [IdleInvocation EXCEPT !.pc = "failed", !.event = inv.event,
                                              !.job_id = inv.job_id, !.status = status]

Bump(j, field) == [tally EXCEPT ![j][field] = @ + 1]

\* Lines 29-52 of the handler: parse the notification, apply the guards and
\* derive the identity.
Resolve(ev) ==
    IF ~ev.wellformed
    THEN Returned("error:invalid_event_structure")
    ELSE LET object_key == unquote_plus(ev.key)
             fp == folder_path(object_key)
         IN  IF ~EndsWith(object_key, MarkerSuffix)
             THEN Returned("ignored:not_ingest_done_marker")
             ELSE IF ~Contains(object_key, "/")
             THEN Returned("ignored:file_in_root")
             ELSE [IdleInvocation EXCEPT
                     !.pc = "put", !.event = ev, !.bucket = ev.bucket,
                     !.object_key = object_key, !.folder_path = fp,
                     !.project_code = project_code(fp),
                     !.job_id = generate_job_id(project_code(fp), fp)]

\* Resolve, tabulated over the notifications of the model.
Resolved == [ev \in Deliveries \cup ProbeDeliveries |-> Resolve(ev)]

\* Lines 29-53: Resolve, then current_ts = now_iso().
Begin(ev) ==
    IF Resolved[ev].pc = "put" THEN [Resolved[ev] EXCEPT !.ts = clock] ELSE Resolved[ev]

Deliver(i, ev) ==
    /\ intake[i].pc = "idle"
    /\ intake' = [intake EXCEPT ![i] = Begin(ev)]
    /\ UNCHANGED <<config, clock, table, executions, objects, recorder, writer, tally, validation>>

\* The delivery layer delivers the notification again after an invocation
\* that raised.
Redeliver(i) ==
    /\ intake[i].pc = "failed"
    /\ intake' = [intake EXCEPT ![i] = Begin(intake[i].event)]
    /\ UNCHANGED <<config, clock, table, executions, objects, recorder, writer, tally, validation>>

\* Mutant: the duplicate branch is never taken.
TakesDuplicatePathNever(created_new) == FALSE

\* Line 84: the branch taken when the conditional create found the record.
TakesDuplicatePath(created_new) == ~created_new

\* Mutant: the duplicate path writes the time read at line 53.
AfterPutKeepsFirstReading(inv, created_new) ==
    IF TakesDuplicatePath(created_new)
    THEN [inv EXCEPT !.pc = "dup", !.created_new = created_new]
    ELSE [inv EXCEPT !.pc = "start", !.created_new = created_new]

\* After put_item answered: the duplicate path reads the clock (line 85),
\* the created path goes on to start the execution.
AfterPut(inv, created_new) ==
    IF TakesDuplicatePath(created_new)
    THEN [inv EXCEPT !.pc = "dup", !.created_new = created_new, !.ts = clock]
    ELSE [inv EXCEPT !.pc = "start", !.created_new = created_new]

\* put_item with the condition, lines 68-79.
PutItem(i) ==
    LET inv == intake[i]
    IN  /\ inv.pc = "put"
        /\ IF ConditionHolds(inv.job_id)
           THEN /\ table' = Stored(inv.job_id, JobItem(inv))
                /\ intake' = [intake EXCEPT ![i] = AfterPut(inv, TRUE)]
                /\ tally' = Bump(inv.job_id, "created")
           ELSE /\ table' = table
                /\ intake' = [intake EXCEPT ![i] = AfterPut(inv, FALSE)]
                /\ tally' = Bump(inv.job_id, "duplicate")
        /\ UNCHANGED <<config, clock, executions, objects, recorder, writer, validation>>

\* put_item fails with another error, lines 80-81: the handler raises.
PutItemError(i) ==
    /\ intake[i].pc = "put"
    /\ intake' = [intake EXCEPT ![i] = Raised(intake[i], "raised:put_item")]
    /\ UNCHANGED <<config, clock, table, executions, objects, recorder, writer, tally, validation>>

\* Mutant: the duplicate path also resets the state.
SeenUpdateResetsState(item, ts, object_key) ==
    [item EXCEPT !.last_seen_at = ts, !.last_seen_object_key = object_key,
                 !.state = "CREATED"]

\* Mutant: the duplicate path also stamps created_at.
SeenUpdateStampsCreation(item, ts, object_key) ==
    [item EXCEPT !.last_seen_at = ts, !.last_seen_object_key = object_key,
                 !.created_at = ts]

\* UpdateExpression of lines 87-91.
SeenUpdate(item, ts, object_key) ==
    [item EXCEPT !.last_seen_at = ts, !.last_seen_object_key = object_key]

\* Lines 87-96: the duplicate path's update and result.
DuplicateUpdate(i) ==
    LET inv == intake[i]
    IN  /\ inv.pc = "dup"
        /\ table' = Stored(inv.job_id,
                           SeenUpdate(ItemOrBlank(inv.job_id), inv.ts, inv.object_key))
        /\ intake' = [intake EXCEPT ![i] = Returned("duplicate_ingest_done_ignored")]
        /\ UNCHANGED <<config, clock, executions, objects, recorder, writer, tally, validation>>

\* start_execution answers with a new execution, lines 110-120.
StartExecution(i) ==
    LET inv == intake[i]
        n == ExecutionName(inv)
    IN  /\ inv.pc = "start"
        /\ n \notin DOMAIN executions
        /\ executions' = (n :> ExecutionInput(inv)) @@ executions
        /\ intake' = [intake EXCEPT ![i] = Returned("job_created_and_execution_started")]
        /\ tally' = Bump(inv.job_id, "starts")
        /\ UNCHANGED <<config, clock, table, objects, recorder, writer, validation>>

\* start_execution answers ExecutionAlreadyExists, lines 121-124: either an
\* execution of that name is there, or the request was accepted, its reply
\* lost, and the request sent again by the client finds the execution it made.
StartExecutionAlreadyExists(i) ==
    LET inv == intake[i]
        n == ExecutionName(inv)
    IN  /\ inv.pc = "start"
        /\ executions' = IF n \in DOMAIN executions THEN executions
                         ELSE (n :> ExecutionInput(inv)) @@ executions
        /\ intake' = [intake EXCEPT
                        ![i] = Returned("job_created_but_execution_already_exists")]
        /\ tally' = Bump(inv.job_id, "starts")
        /\ UNCHANGED <<config, clock, table, objects, recorder, writer, validation>>

\* start_execution fails with another error, lines 121-135: the handler
\* builds the ERROR_STARTING update (reading the clock, line 134).
StartExecutionError(i) ==
    LET inv == intake[i]
    IN  /\ inv.pc = "start"
        /\ intake' = [intake EXCEPT ![i].pc = "mark", ![i].ts = clock]
        /\ tally' = [Bump(inv.job_id, "starts") EXCEPT ![inv.job_id].start_errors = @ + 1]
        /\ UNCHANGED <<config, clock, table, executions, objects, recorder, writer, validation>>

\* Mutant: the failure detail is recorded and the state left alone.
ErrorStartingUpdateNoState(item, ts) ==
    [item EXCEPT !.start_error = "ClientError", !.last_seen_at = ts]

\* UpdateExpression of lines 127-136.
ErrorStartingUpdate(item, ts) ==
    [item EXCEPT !.state = "ERROR_STARTING", !.start_error = "ClientError",
                 !.last_seen_at = ts]

\* Lines 127-137: record the failure on the job, then raise.
MarkErrorStarting(i) ==
    LET inv == intake[i]
    IN  /\ inv.pc = "mark"
        /\ table' = Stored(inv.job_id, ErrorStartingUpdate(ItemOrBlank(inv.job_id), inv.ts))
        /\ intake' = [intake EXCEPT ![i] = Raised(inv, "raised:start_execution")]
        /\ UNCHANGED <<config, clock, executions, objects, recorder, writer, tally, validation>>

(***************************************************************************)
(* State Transition Recorder (ingest-update-job-state).                    *)
(*   pc: idle -> update -> done, or idle -> failed (ValueError)            *)
(* An event carries the nested (policy / impl) shape, the flat shape, or   *)
(* both; a key the event does not carry reads as None (NoJob for job_id).  *)
(***************************************************************************)
\* Python truthiness of the values an event carries: None and "" are false.
Truthy(v) == v # None /\ v # ""

TruthyJob(j) == j # NoJob

\* a or b
Or(a, b) == IF Truthy(a) THEN a ELSE b

OrJob(a, b) == IF TruthyJob(a) THEN a ELSE b

NoContext ==
    [ ruleset_version |-> None, project_code |-> None, trigger |-> None,
      execution_id |-> None, entered_time |-> None ]

FullContext ==
    [ ruleset_version |-> "v1.0", project_code |-> "a", trigger |-> "_INGEST_DONE",
      execution_id |-> "exec-1", entered_time |-> "t0" ]

EmptyRecorderEvent ==
    [ policy_job_id |-> NoJob, job_id |-> NoJob,
      policy_state_next |-> None, new_state |-> None,
      policy_ruleset_version |-> None, ruleset_version |-> None,
      policy_project_code |-> None, project_code |-> None,
      impl_event_trigger |-> None, trigger |-> None,
      impl_orchestration_execution_id |-> None, execution_id |-> None,
      impl_orchestration_entered_time |-> None, entered_time |-> None ]

\* Shape (A): { job_id, new_state, ... }
FlatEvent(j, st, ctx) ==
    [ EmptyRecorderEvent EXCEPT
        !.job_id = j, !.new_state = st,
        !.ruleset_version = ctx.ruleset_version, !.project_code = ctx.project_code,
        !.trigger = ctx.trigger, !.execution_id = ctx.execution_id,
        !.entered_time = ctx.entered_time ]

\* Shape (B): { policy: { job_id, state: { next }, ... }, impl: { ... } }
NestedEvent(j, st, ctx) ==
    [ EmptyRecorderEvent EXCEPT
        !.policy_job_id = j, !.policy_state_next = st,
        !.policy_ruleset_version = ctx.ruleset_version,
        !.policy_project_code = ctx.project_code,
        !.impl_event_trigger = ctx.trigger,
        !.impl_orchestration_execution_id = ctx.execution_id,
        !.impl_orchestration_entered_time = ctx.entered_time ]

TargetStates == {"VALIDATING", "VALIDATED"}

\* The orchestrator calls the recorder from a run, with the run's job_id.
RecorderEvents ==
    { FlatEvent(executions[n].job_id, st, ctx) :
        n \in DOMAIN executions, st \in TargetStates, ctx \in {NoContext, FullContext} }
    \cup { NestedEvent(executions[n].job_id, st, ctx) :
        n \in DOMAIN executions, st \in TargetStates, ctx \in {NoContext, FullContext} }
    \cup { FlatEvent(NoJob, "VALIDATED", FullContext),
           NestedEvent(NoJob, None, NoContext) }

\* history_entry, handler lines 38-47: a dict literal that always holds the
\* eight keys; a context field the event does not give holds Python None,
\* which the table resource writes as a NULL attribute of the entry.
HistoryEntry(ev, ts) ==
    [ at |-> ts,
      to |-> Or(ev.policy_state_next, ev.new_state),
      by |-> "stepfunctions",
      project_code |-> Or(ev.policy_project_code, ev.project_code),
      trigger |-> Or(ev.impl_event_trigger, ev.trigger),
      execution_id |-> Or(ev.impl_orchestration_execution_id, ev.execution_id),
      entered_time |-> Or(ev.impl_orchestration_entered_time, ev.entered_time),
      ruleset_version |-> Or(ev.policy_ruleset_version, ev.ruleset_version) ]

NoEntry == HistoryEntry(EmptyRecorderEvent, NoTs)

IdleRecorder == [pc |-> "idle", job_id |-> NoJob, new_state |-> None, entry |-> NoEntry]

\* Lines 25-47: resolve the payload, validate, read the clock, build the entry.
RecorderBegin(r, ev) ==
    LET job_id == OrJob(ev.policy_job_id, ev.job_id)
        new_state == Or(ev.policy_state_next, ev.new_state)
    IN  /\ recorder[r].pc = "idle"
        /\ recorder' = [recorder EXCEPT ![r] =
              IF ~TruthyJob(job_id) \/ ~Truthy(new_state)
              THEN [IdleRecorder EXCEPT !.pc = "failed"]
              ELSE [pc |-> "update", job_id |-> job_id, new_state |-> new_state,
                    entry |-> HistoryEntry(ev, clock)]]
        /\ UNCHANGED <<config, clock, table, executions, objects, intake, writer, tally, validation>>

\* Mutant: ADD on a set (the expression of line 52): an entry equal to one
\* already there is not added.
ListAppendAsSet(history, entry) ==
    IF \E k \in 1..Len(history) : history[k] = entry THEN history ELSE Append(history, entry)

\* Mutant: the entry is put in front.
ListAppendFront(history, entry) == <<entry>> \o history

\* list_append(if_not_exists(state_history, :empty), :h), line 57.
ListAppend(history, entry) == Append(history, entry)

\* Mutant: the state is set and the history left alone.
TransitionUpdateStateOnly(item, new_state, entry) ==
    [item EXCEPT !.state = new_state, !.updated_at = entry.at]

\* UpdateExpression of line 57 with the values of lines 50-58.
TransitionUpdate(item, new_state, entry) ==
    [item EXCEPT !.state = new_state, !.updated_at = entry.at,
                 !.state_history = ListAppend(@, entry)]

\* update_item and the result, lines 60-67.
RecorderUpdate(r) ==
    LET inv == recorder[r]
    IN  /\ inv.pc = "update"
        /\ table' = Stored(inv.job_id,
                           TransitionUpdate(ItemOrBlank(inv.job_id), inv.new_state, inv.entry))
        /\ recorder' = [recorder EXCEPT ![r].pc = "done"]
        /\ UNCHANGED <<config, clock, executions, objects, intake, writer, tally, validation>>

(***************************************************************************)
(* Manifest Writer (ingest-write-manifest).                                *)
(*   pc: idle -> put -> update -> done, or -> failed (an exception)        *)
(***************************************************************************)
\* What the validation stage handed over: nothing, or a result with its
\* verdict and inventory (a list of payload keys here).
NoValidation == [present |-> FALSE, ok |-> FALSE, inventory |-> <<>>, validated_at |-> NoTs]

Validation(ok, inventory) ==
    [present |-> TRUE, ok |-> ok, inventory |-> inventory, validated_at |-> 0]

ValidationResults ==
    { NoValidation, Validation(TRUE, <<"a/f1">>), Validation(FALSE, <<"a/f1">>) }

\* An event of the writer: job_id, project_code, the S3 location (impl.s3
\* or the flat keys, already resolved by "or") and validate_result.
WriterEvent(j, pcode, bucket, prefix, vr) ==
    [job_id |-> j, project_code |-> pcode, bucket |-> bucket, prefix |-> prefix,
     ruleset_version |-> None, validate_result |-> vr]

\* The orchestrator calls the writer from a run, with the run's input and
\* whatever the validation stage returned; an event may also lack a
\* mandatory field.
WriterEvents ==
    { WriterEvent(executions[n].job_id, executions[n].project_code,
                  executions[n].bucket, executions[n].folder_path, vr) :
        n \in DOMAIN executions, vr \in ValidationResults }
    \cup { WriterEvent(NoJob, <<"a">>, "b1", <<"a", "/">>, Validation(TRUE, <<"a/f1">>)) }

\* RULESET_VERSION_DEFAULT, line 14.
RULESET_VERSION_DEFAULT == "v1.0"

\* Lines 50-52: the prefix ends with "/".
NormalizedPrefix(prefix) ==
    IF prefix # <<>> /\ ~EndsWith(prefix, <<"/">>) THEN prefix \o <<"/">> ELSE prefix

\* out_bucket, line 102.
OutBucket(bucket) == IF Truthy(config.MANIFEST_BUCKET) THEN config.MANIFEST_BUCKET ELSE bucket

\* inventory, lines 60-64: the validation stage's, or an empty list.
InventoryOf(ev) == IF ev.validate_result.present THEN ev.validate_result.inventory ELSE <<>>

\* manifest, lines 75-99.
Manifest(ev, created_at) ==
    [ manifest_version |-> "v1.0",
      job_id |-> ev.job_id,
      project_code |-> ev.project_code,
      ruleset_version |-> Or(ev.ruleset_version, RULESET_VERSION_DEFAULT),
      ingest_folder |-> S3Uri(ev.bucket, NormalizedPrefix(ev.prefix)),
      state |-> [name |-> "VALIDATED", reason |-> "validation_succeeded"],
      created_at |-> created_at,
      validated_at |-> IF ev.validate_result.present /\ ev.validate_result.validated_at # NoTs
                       THEN ev.validate_result.validated_at ELSE created_at,
      inventory |-> InventoryOf(ev) ]

IdleWriter ==
    [ pc |-> "idle", event |-> WriterEvent(NoJob, <<>>, None, <<>>, NoValidation),
      out_bucket |-> None, manifest_key |-> ManifestKey(<<>>, NoJob),
      created_at |-> NoTs, status |-> None ]

\* The handler returned or raised: its local variables are gone.
WriterReturned(status) == [IdleWriter EXCEPT !.pc = "done", !.status = status]

WriterRaised(status) == [IdleWriter EXCEPT !.pc = "failed", !.status = status]

\* Lines 37-104: validate the input, read the clock, derive the location.
WriterBegin(w, ev) ==
    /\ writer[w].pc = "idle"
    /\ writer' = [writer EXCEPT ![w] =
          IF ~TruthyJob(ev.job_id) \/ ev.project_code = <<>> \/ ~Truthy(ev.bucket)
          THEN WriterRaised("raised:ValueError")
          ELSE [IdleWriter EXCEPT !.pc = "put", !.event = ev,
                                  !.out_bucket = OutBucket(ev.bucket),
                                  !.manifest_key = ManifestKey(ev.project_code, ev.job_id),
                                  !.created_at = clock]]
    /\ UNCHANGED <<clock, config, table, executions, objects, intake, recorder, tally, validation>>

\* put_object succeeds, lines 106-112.
WriterPut(w) ==
    LET inv == writer[w]
    IN  /\ inv.pc = "put"
        /\ objects' = (<<inv.out_bucket, inv.manifest_key>> :> Manifest(inv.event, inv.created_at))
                      @@ objects
        /\ writer' = [writer EXCEPT ![w].pc = "update"]
        /\ UNCHANGED <<clock, config, table, executions, intake, recorder, tally, validation>>

\* Mutant: the failed write is swallowed and the handler goes on.
AfterPutObjectErrorSwallowed(inv) == [inv EXCEPT !.pc = "update"]

\* After a failed put_object (lines 113-114): the handler raises.
AfterPutObjectError(inv) == WriterRaised("raised:manifest_write_failed")

\* put_object fails, lines 113-114.
WriterPutError(w) ==
    /\ writer[w].pc = "put"
    /\ writer' = [writer EXCEPT ![w] = AfterPutObjectError(writer[w])]
    /\ UNCHANGED <<clock, config, table, executions, objects, intake, recorder, tally, validation>>

\* UpdateExpression of lines 119-128.
PointerUpdate(item, inv) ==
    [item EXCEPT !.manifest_s3_uri = S3Uri(inv.out_bucket, inv.manifest_key),
                 !.manifest_bucket = inv.out_bucket,
                 !.manifest_key = inv.manifest_key,
                 !.updated_at = inv.created_at]

\* update_item succeeds and the handler returns the pointer, lines 118-139.
WriterUpdate(w) ==
    LET inv == writer[w]
    IN  /\ inv.pc = "update"
        /\ table' = Stored(inv.event.job_id, PointerUpdate(ItemOrBlank(inv.event.job_id), inv))
        /\ writer' = [writer EXCEPT ![w] = WriterReturned("manifest_written")]
        /\ UNCHANGED <<clock, config, executions, objects, intake, recorder, tally, validation>>

\* Mutant: the failure is reported as a failed manifest write.
AfterUpdateItemErrorAsWriteFailure(inv) == WriterRaised("raised:manifest_write_failed")

\* After a failed update_item (lines 129-131): the handler raises, naming
\* the manifest that was written.
AfterUpdateItemError(inv) == WriterRaised("raised:manifest_written_pointer_not_recorded")

\* update_item fails, lines 129-131.
WriterUpdateError(w) ==
    /\ writer[w].pc = "update"
    /\ writer' = [writer EXCEPT ![w] = AfterUpdateItemError(writer[w])]
    /\ UNCHANGED <<clock, config, table, executions, objects, intake, recorder, tally, validation>>

(***************************************************************************)
(* Folder Validator (ingest-validate-files).                               *)
(*   pc: idle -> listing (one step per page request) -> validate -> done   *)
(***************************************************************************)
\* MAX_KEYS when the environment does not set it, line 11.
MAX_KEYS_DEFAULT == 5000

\* "MaxKeys": 1000 of each list_objects_v2 request, line 28.
PAGE_MAX_KEYS == 1000

\* A listed object without Size.
NoSize == 0 - 1

S3Object(key, size, etag) == [Key |-> key, Size |-> size, ETag |-> etag, LastModified |-> 0]

FileKey(name) == <<"a", "/", "f">> \o <<name>>

\* The objects a listing of folder a/ may hold: the marker, two sound files,
\* one without Key, a zero-byte one, one without ETag, one without Size and
\* without ETag.
MarkerObject == S3Object(KeyA, 0, "e0")
ObjectPool ==
    { MarkerObject,
      S3Object(FileKey("1"), 1, "e1"),
      S3Object(FileKey("2"), 2, "e2"),
      S3Object(<<>>, 1, "e3"),
      S3Object(FileKey("4"), 0, "e4"),
      S3Object(FileKey("5"), 1, None),
      S3Object(FileKey("6"), NoSize, None) }

\* Listings: the store lists each object once, in the order it chooses.
RECURSIVE Listings(_)
Listings(n) ==
    IF n = 0 THEN { <<>> }
    ELSE Listings(n - 1) \cup
         { Append(l, o) : l \in { m \in Listings(n - 1) : Len(m) = n - 1 }, o \in ObjectPool }

IsListing(l) == \A a, b \in 1..Len(l) : a # b => l[a] # l[b]

Folders == { l \in Listings(MaxObjects) : IsListing(l) }

\* Python compares str by code point.
CodePoint ==
    [ c \in {"/", "1", "2", "4", "5", "6", "D", "E", "G", "I", "N", "O", "S", "T", "_", "a", "f"} |->
        CASE c = "/" -> 47 [] c = "1" -> 49 [] c = "2" -> 50 [] c = "4" -> 52
          [] c = "5" -> 53 [] c = "6" -> 54 [] c = "D" -> 68 [] c = "E" -> 69
          [] c = "G" -> 71 [] c = "I" -> 73 [] c = "N" -> 78 [] c = "O" -> 79
          [] c = "S" -> 83 [] c = "T" -> 84 [] c = "_" -> 95 [] c = "a" -> 97
          [] c = "f" -> 102 ]

\* a < b on str.
StrLess(a, b) ==
    \E k \in 1..(Len(b)) :
        /\ k <= Len(a) + 1
        /\ \A m \in 1..(k - 1) : a[m] = b[m]
        /\ k = Len(a) + 1 \/ CodePoint[a[k]] < CodePoint[b[k]]

\* Mutant: the slice is one short.
TakeBelowCap(items, n) == SubSeq(items, 1, n - 1)

\* items[:n], n >= 0.
Take(items, n) == SubSeq(items, 1, IF n < Len(items) THEN n ELSE Len(items))

\* An itemized error: the f-strings of lines 60-79.
ErrorItem(code, detail, key) == [code |-> code, detail |-> detail, key |-> key]

\* Mutant: the fingerprint is not looked at.
ObjectErrorsWithoutETag(o) ==
    IF o.Key = <<>>
    THEN << ErrorItem("BAD_OBJECT", "missing Key", <<>>) >>
    ELSE IF o.Size = NoSize
    THEN << ErrorItem("BAD_OBJECT", "missing Size", o.Key) >>
    ELSE IF ~validator_env.ALLOW_ZERO_BYTE /\ o.Size = 0
    THEN << ErrorItem("ZERO_BYTE_OBJECT", "", o.Key) >>
    ELSE << >>

\* The errors of one payload object, lines 64-79.
ObjectErrors(o) ==
    IF o.Key = <<>>
    THEN << ErrorItem("BAD_OBJECT", "missing Key", <<>>) >>
    ELSE (IF o.Size = NoSize
          THEN << ErrorItem("BAD_OBJECT", "missing Size", o.Key) >>
          ELSE IF ~validator_env.ALLOW_ZERO_BYTE /\ o.Size = 0
          THEN << ErrorItem("ZERO_BYTE_OBJECT", "", o.Key) >>
          ELSE << >>)
         \o (IF o.ETag = None
             THEN << ErrorItem("BAD_OBJECT", "missing ETag", o.Key) >>
             ELSE << >>)

\* Mutant: the loop stops at the first defective object.
RECURSIVE PayloadErrorsFailFast(_)
PayloadErrorsFailFast(payload) ==
    IF payload = <<>> THEN <<>>
    ELSE IF ObjectErrors(Head(payload)) # <<>> THEN ObjectErrors(Head(payload))
    ELSE PayloadErrorsFailFast(Tail(payload))

\* The loop of lines 63-79.
RECURSIVE PayloadErrors(_)
PayloadErrors(payload) ==
    IF payload = <<>> THEN <<>>
    ELSE ObjectErrors(Head(payload)) \o PayloadErrors(Tail(payload))

\* payload, line 57.
Payload(objs, marker_key) == SelectSeq(objs, LAMBDA o : o.Key # marker_key)

\* validate_objects, lines 47-81: (ok, errors).
validate_objects(objs, marker_key) ==
    IF Payload(objs, marker_key) = <<>>
    THEN [ok |-> FALSE,
          errors |-> << ErrorItem("EMPTY_FOLDER", "no payload objs found", <<>>) >>]
    ELSE [ok |-> PayloadErrors(Payload(objs, marker_key)) = <<>>,
          errors |-> PayloadErrors(Payload(objs, marker_key))]

\* datetime.isoformat().
IsoFormat(t) == [iso |-> t]

\* One inventory entry, lines 134-141; int(o.get("Size", 0)).
InventoryEntry(o) ==
    [ key |-> o.Key,
      size |-> IF o.Size = NoSize THEN 0 ELSE o.Size,
      etag |-> o.ETag,
      last_modified |-> IsoFormat(o.LastModified) ]

RECURSIVE InventoryEntries(_, _)
InventoryEntries(objs, marker_key) ==
    IF objs = <<>> THEN <<>>
    ELSE IF Head(objs).Key = <<>> \/ Head(objs).Key = marker_key
    THEN InventoryEntries(Tail(objs), marker_key)
    ELSE << InventoryEntry(Head(objs)) >> \o InventoryEntries(Tail(objs), marker_key)

\* list.sort(key=...) is stable: an entry goes after those that are not
\* greater.
RECURSIVE InsertByKey(_, _)
InsertByKey(sorted, e) ==
    IF sorted = <<>> THEN << e >>
    ELSE IF StrLess(e.key, sorted[Len(sorted)].key)
    THEN Append(InsertByKey(SubSeq(sorted, 1, Len(sorted) - 1), e), sorted[Len(sorted)])
    ELSE Append(sorted, e)

\* Mutant: the entries stay in listing order.
SortByKeyNot(entries) == entries

\* inventory.sort(key=lambda x: x["key"]), line 145.
RECURSIVE SortByKey(_)
SortByKey(entries) ==
    IF entries = <<>> THEN <<>>
    ELSE InsertByKey(SortByKey(SubSeq(entries, 1, Len(entries) - 1)), entries[Len(entries)])

\* inventory, lines 128-145.
Inventory(objs, marker_key) == SortByKey(InventoryEntries(objs, marker_key))

\* A result without "stats" and "inventory" (lines 104-109 and 118-123).
NoStats ==
    [object_count_including_marker |-> NoSize, payload_file_count |-> NoSize,
     max_keys_cap |-> NoSize]

ShortResult(ts, reason, errors) ==
    [ ok |-> FALSE, validated_at |-> ts, reason |-> reason, errors |-> errors,
      has_inventory |-> FALSE, stats |-> NoStats, inventory |-> <<>> ]

NoResult == ShortResult(NoTs, None, <<>>)

\* The result of lines 147-158.
FullResult(objs, marker_key, ts) ==
    [ ok |-> validate_objects(objs, marker_key).ok,
      validated_at |-> ts,
      reason |-> IF validate_objects(objs, marker_key).ok
                 THEN "OK" ELSE "FAILED_VALIDATION",
      errors |-> validate_objects(objs, marker_key).errors,
      has_inventory |-> TRUE,
      stats |-> [object_count_including_marker |-> Len(objs),
                 payload_file_count |-> Len(Inventory(objs, marker_key)),
                 max_keys_cap |-> validator_env.MAX_KEYS],
      inventory |-> Inventory(objs, marker_key) ]

\* The events of the validator: the run's input for folder a/, and one
\* without object_key.
ValidatorEvent(bucket, fp, object_key) ==
    [bucket |-> bucket, folder_path |-> fp, object_key |-> object_key]

ValidatorEvents ==
    { ValidatorEvent("b1", <<"a", "/">>, KeyA), ValidatorEvent("b1", <<"a", "/">>, NoRef) }

IdleValidator ==
    [ pc |-> "idle", marker_key |-> NoRef, items |-> <<>>, token |-> 0, requests |-> 0,
      objects |-> <<>>, result |-> NoResult ]

ValidatorReturned(result) == [IdleValidator EXCEPT !.pc = "done", !.result = result]

\* Lines 98-111: the required fields, then the first request is due.
ValidatorBegin(ev) ==
    /\ validator.pc = "idle"
    /\ validator' =
          IF ~Truthy(ev.bucket) \/ ev.folder_path = <<>> \/ ev.object_key = <<>>
          THEN ValidatorReturned(ShortResult(clock, "INVALID_INPUT",
                  << ErrorItem("INVALID_INPUT", "Missing required fields", <<>>) >>))
          ELSE [IdleValidator EXCEPT !.pc = "listing", !.marker_key = ev.object_key]
    /\ UNCHANGED <<config, clock, table, executions, objects, intake, recorder, writer,
                   tally, folder, validator_env>>

\* Mutant: the cap is not applied.
AfterPageUncapped(inv, contents, truncated, n) ==
    IF truncated
    THEN [inv EXCEPT !.items = inv.items \o contents, !.token = inv.token + n,
                     !.requests = @ + 1]
    ELSE [inv EXCEPT !.pc = "validate", !.objects = inv.items \o contents,
                     !.items = <<>>, !.token = 0, !.requests = @ + 1]

\* One pass of the loop of lines 27-44 after the store's answer: contents,
\* IsTruncated, and the token (the place the next page starts from).
AfterPage(inv, contents, truncated, n) ==
    IF Len(inv.items \o contents) >= validator_env.MAX_KEYS
    THEN [inv EXCEPT !.pc = "validate",
                     !.objects = Take(inv.items \o contents, validator_env.MAX_KEYS),
                     !.items = <<>>, !.token = 0, !.requests = @ + 1]
    ELSE IF truncated
    THEN [inv EXCEPT !.items = inv.items \o contents, !.token = inv.token + n,
                     !.requests = @ + 1]
    ELSE [inv EXCEPT !.pc = "validate", !.objects = inv.items \o contents,
                     !.items = <<>>, !.token = 0, !.requests = @ + 1]

\* list_objects_v2 answers with the next n objects of the folder (at least
\* one while there are any, at most PAGE_MAX_KEYS) and says whether more
\* follow.
ListPage(n) ==
    /\ validator.pc = "listing"
    /\ n <= Len(folder) - validator.token
    /\ n <= PAGE_MAX_KEYS
    /\ n = 0 => Len(folder) = validator.token
    /\ validator' = AfterPage(validator,
                              SubSeq(folder, validator.token + 1, validator.token + n),
                              validator.token + n < Len(folder), n)
    /\ UNCHANGED <<config, clock, table, executions, objects, intake, recorder, writer,
                   tally, folder, validator_env>>

\* Lines 113-158: the empty listing, or validation, inventory and result.
ValidatorFinish ==
    /\ validator.pc = "validate"
    /\ validator' =
          IF Len(validator.objects) = 0
          THEN ValidatorReturned(ShortResult(clock, "FOLDER_NOT_FOUND_OR_EMPTY",
                  << ErrorItem("FOLDER_NOT_FOUND_OR_EMPTY", "No objects found under prefix",
                               <<>>) >>))
          ELSE ValidatorReturned(FullResult(validator.objects, validator.marker_key, clock))
    /\ UNCHANGED <<config, clock, table, executions, objects, intake, recorder, writer,
                   tally, folder, validator_env>>

\* Time passes.
Tick ==
    /\ clock < MaxClock
    /\ clock' = clock + 1
    /\ UNCHANGED <<config, table, executions, objects, intake, recorder, writer, tally, validation>>

(***************************************************************************)
(* The system.                                                             *)
(***************************************************************************)
\* Everything but the environment, after deployment: nothing stored, nothing
\* running.
FreshPipeline ==
    /\ clock = 0
    /\ table = <<>>
    /\ executions = <<>>
    /\ objects = <<>>
    /\ intake = [i \in Invocations |-> IdleInvocation]
    /\ recorder = [r \in RecorderCalls |-> IdleRecorder]
    /\ writer = [w \in WriterCalls |-> IdleWriter]
    /\ tally = [j \in JobIds |-> [created |-> 0, duplicate |-> 0, starts |-> 0,
                                  start_errors |-> 0]]

\* The validator idle, with the defaults of lines 11-12, and an empty folder.
Fresh ==
    /\ FreshPipeline
    /\ folder = <<>>
    /\ validator_env = [MAX_KEYS |-> MAX_KEYS_DEFAULT, ALLOW_ZERO_BYTE |-> FALSE]
    /\ validator = IdleValidator

\* MANIFEST_BUCKET unset: manifests go to the source bucket (line 13).
Init == config = [MANIFEST_BUCKET |-> None] /\ Fresh

\* MANIFEST_BUCKET set or unset.
InitAnyConfig == config \in {[MANIFEST_BUCKET |-> b] : b \in {None, "manifests"}} /\ Fresh

IntakeStep(i) ==
    \/ \E ev \in Deliveries : Deliver(i, ev)
    \/ Redeliver(i)
    \/ PutItem(i)
    \/ PutItemError(i)
    \/ DuplicateUpdate(i)
    \/ StartExecution(i)
    \/ StartExecutionAlreadyExists(i)
    \/ StartExecutionError(i)
    \/ MarkErrorStarting(i)

RecorderStep(r) ==
    \/ \E ev \in RecorderEvents : RecorderBegin(r, ev)
    \/ RecorderUpdate(r)

\* The Intake Gateway under any deliveries.
Next ==
    \/ Tick
    \/ \E i \in Invocations : IntakeStep(i)

Spec == Init /\ [][Next]_vars

\* One marker delivered (and delivered again while its invocation fails),
\* and the recorder called from the run it starts.
OneDelivery(i) ==
    \/ Deliver(i, Notification("b1", KeyA))
    \/ Redeliver(i)
    \/ PutItem(i)
    \/ PutItemError(i)
    \/ DuplicateUpdate(i)
    \/ StartExecution(i)
    \/ StartExecutionAlreadyExists(i)
    \/ StartExecutionError(i)
    \/ MarkErrorStarting(i)

NextRecorder ==
    \/ Tick
    \/ OneDelivery(1)
    \/ \E r \in RecorderCalls : RecorderStep(r)

SpecRecorder == Init /\ [][NextRecorder]_vars

\* Two notifications at a time, over the keys of ProbeDeliveries: what the
\* handler derives from each.
NextIdentity == \E i \in {1, 2} : \E ev \in ProbeDeliveries : Deliver(i, ev)

SpecIdentity == Init /\ [][NextIdentity]_vars

WriterStep(w) ==
    \/ \E ev \in WriterEvents : WriterBegin(w, ev)
    \/ WriterPut(w)
    \/ WriterPutError(w)
    \/ WriterUpdate(w)
    \/ WriterUpdateError(w)

NextWriter ==
    \/ Tick
    \/ OneDelivery(1)
    \/ \E w \in WriterCalls : WriterStep(w)

SpecWriter == InitAnyConfig /\ [][NextWriter]_vars

\* One marker delivered any number of times, the invocations overlapping.
NextSeen ==
    \/ Tick
    \/ \E i \in Invocations : OneDelivery(i)

SpecSeen == Init /\ [][NextSeen]_vars

\* The whole pipeline on one folder path that two buckets hold: markers of
\* a/ delivered from b1 and from b2 (two deliveries, each delivered again
\* while its invocation fails), and the recorder and the writer called from
\* the run, with a context that names the project and the trigger.
TwoBucketDeliveries == { Notification("b1", KeyA), Notification("b2", KeyAx) }

PipelineRecorderEvents ==
    { FlatEvent(executions[n].job_id, "VALIDATING", FullContext) : n \in DOMAIN executions }

PipelineWriterEvents ==
    { WriterEvent(executions[n].job_id, executions[n].project_code,
                  executions[n].bucket, executions[n].folder_path,
                  Validation(TRUE, <<"a/f1">>)) : n \in DOMAIN executions }

NextPipeline ==
    \/ Tick
    \/ \E i \in {1, 2} : \E ev \in TwoBucketDeliveries : Deliver(i, ev)
    \/ \E i \in {1, 2} : Redeliver(i)
    \/ \E i \in {1, 2} : PutItem(i)
    \/ \E i \in {1, 2} : PutItemError(i)
    \/ \E i \in {1, 2} : DuplicateUpdate(i)
    \/ \E i \in {1, 2} : StartExecution(i)
    \/ \E i \in {1, 2} : StartExecutionAlreadyExists(i)
    \/ \E i \in {1, 2} : StartExecutionError(i)
    \/ \E i \in {1, 2} : MarkErrorStarting(i)
    \/ \E ev \in PipelineRecorderEvents : RecorderBegin(1, ev)
    \/ RecorderUpdate(1)
    \/ \E ev \in PipelineWriterEvents : WriterBegin(1, ev)
    \/ WriterPut(1)
    \/ WriterPutError(1)
    \/ WriterUpdate(1)
    \/ WriterUpdateError(1)

SpecPipeline == Init /\ [][NextPipeline]_vars

\* A job_id no marker was ever delivered for.
OrphanJob == generate_job_id(<<"z">>, <<"z", "/">>)

\* Calls of the recorder and of the writer for that job_id (the handlers
\* take any event; nothing in them looks the record up first).
RecorderOrphanEvents ==
    { FlatEvent(OrphanJob, st, NoContext) : st \in TargetStates }

WriterOrphanEvents ==
    { WriterEvent(OrphanJob, <<"z">>, "b1", <<"z", "/">>, Validation(TRUE, <<"z/f1">>)) }

NextOrphan ==
    \/ Tick
    \/ \E r \in RecorderCalls : \E ev \in RecorderOrphanEvents : RecorderBegin(r, ev)
    \/ \E r \in RecorderCalls : RecorderUpdate(r)
    \/ \E w \in WriterCalls : \E ev \in WriterOrphanEvents : WriterBegin(w, ev)
    \/ \E w \in WriterCalls : WriterPut(w)
    \/ \E w \in WriterCalls : WriterPutError(w)
    \/ \E w \in WriterCalls : WriterUpdate(w)
    \/ \E w \in WriterCalls : WriterUpdateError(w)

SpecOrphan == Init /\ [][NextOrphan]_vars

\* The validator called on any folder of up to MaxObjects objects, with
\* MAX_KEYS and ALLOW_ZERO_BYTE set either way.
InitValidator ==
    /\ config = [MANIFEST_BUCKET |-> None]
    /\ FreshPipeline
    /\ folder \in Folders
    /\ validator_env \in [MAX_KEYS : 1..MaxCap, ALLOW_ZERO_BYTE : BOOLEAN]
    /\ validator = IdleValidator

ValidatorStep ==
    \/ \E ev \in ValidatorEvents : ValidatorBegin(ev)
    \/ \E n \in 0..MaxObjects : ListPage(n)
    \/ ValidatorFinish

NextValidator ==
    \/ Tick
    \/ ValidatorStep

\* A started invocation runs to its end (the Lambda runtime keeps running
\* the handler, the store answers every request).
SpecValidator == InitValidator /\ [][NextValidator]_vars /\ WF_vars(ValidatorStep)

(***************************************************************************)
(* Properties.                                                             *)
(***************************************************************************)
AllReturned == \A i \in Invocations : intake[i].pc = "done"

\* C1: of the Intake Gateway invocations for one job_id whose conditional
\* create was answered by the store, in any interleaving, exactly one took
\* the created path and all the others the duplicate path; the store holds a
\* record for the job_id exactly when one was created, under its own key.
C1_ExactlyOneCreated ==
    /\ \A j \in JobIds :
        /\ tally[j].created <= 1
        /\ (tally[j].created + tally[j].duplicate >= 1) => tally[j].created = 1
        /\ Exists(j) <=> tally[j].created = 1
        /\ Cardinality({ i \in Invocations :
                           intake[i].job_id = j /\ intake[i].created_new }) <= 1
    /\ \A k \in DOMAIN table : k \in JobIds /\ table[k].job_id = k

\* Every delivery was for one folder: one created, all the others duplicates.
C1_Witness ==
    /\ AllReturned
    /\ \E j \in JobIds : tally[j].created = 1 /\ tally[j].duplicate = NumIntake - 1

\* C2: at most one orchestration run exists per job_id; start is called only
\* by the invocation whose conditional create succeeded (never on the
\* duplicate path), at most once per job_id; a start answered "execution
\* already exists" returns a success result and leaves exactly one run.
C2_AtMostOneRun ==
    /\ \A j \in JobIds :
        /\ Cardinality(RunsOf(j)) <= 1
        /\ tally[j].starts <= tally[j].created
        /\ RunsOf(j) # {} => tally[j].starts = 1
    /\ \A n \in DOMAIN executions : executions[n].job_id \in JobIds
    /\ \A i \in Invocations :
        /\ intake[i].pc \in {"start", "mark"} => intake[i].created_new
        /\ intake[i].pc = "dup" => ~intake[i].created_new
        /\ intake[i].status = "duplicate_ingest_done_ignored" => intake[i].pc = "done"
        /\ intake[i].status = "job_created_but_execution_already_exists" =>
              intake[i].pc = "done"

\* A job with its run, after a duplicate delivery and an "already exists".
C2_Witness ==
    /\ AllReturned
    /\ \E j \in JobIds :
        /\ Cardinality(RunsOf(j)) = 1
        /\ tally[j].duplicate >= 1
        /\ \E i \in Invocations :
              intake[i].status = "job_created_but_execution_already_exists"

\* C3: once no invocation is running or waiting to be delivered again, every
\* job record has its orchestration run (what "the run is eventually started,
\* given re-delivery after each failed invocation" comes to when the
\* deliveries have all returned).
C3_EveryJobGetsItsRun ==
    (\A i \in Invocations : intake[i].pc \in {"idle", "done"})
        => \A j \in DOMAIN table : RunsOf(j) # {}

\* C4: the step of an invocation that found the record existing changes
\* last_seen_at and last_seen_object_key of that record and no other
\* attribute, no other record and no execution, and returns "duplicate".
C4_DuplicateFrame ==
    [][ \A i \in Invocations :
          (intake[i].pc = "dup" /\ intake'[i] # intake[i]) =>
            LET j == intake[i].job_id
            IN  /\ Exists(j)
                /\ DOMAIN table' = DOMAIN table
                /\ \A k \in DOMAIN table : k # j => table'[k] = table[k]
                /\ \A f \in DOMAIN table[j] \ {"last_seen_at", "last_seen_object_key"} :
                      table'[j][f] = table[j][f]
                /\ table'[j].last_seen_at = intake[i].ts
                /\ table'[j].last_seen_object_key = intake[i].object_key
                /\ executions' = executions
                /\ tally' = tally
                /\ intake'[i].pc = "done"
                /\ intake'[i].status = "duplicate_ingest_done_ignored" ]_vars

\* A duplicate delivery returned on a job that is in ERROR_STARTING.
C4_Witness ==
    \E i \in Invocations, j \in DOMAIN table :
        /\ intake[i].status = "duplicate_ingest_done_ignored"
        /\ table[j].state = "ERROR_STARTING"
        /\ table[j].last_seen_object_key # KeyA
        /\ tally[j].duplicate >= 1

\* C10: a start that fails with another error than "already exists" is
\* followed by the ERROR_STARTING update and a raise: the invocation never
\* returns a result, the record then carries state ERROR_STARTING and the
\* failure detail; start_error is set only on a job whose start failed.
C10_Inv ==
    \A j \in JobIds :
        /\ (Exists(j) /\ table[j].start_error # None) => tally[j].start_errors >= 1
        /\ tally[j].start_errors >= 1 =>
              \/ \E i \in Invocations : intake[i].pc = "mark" /\ intake[i].job_id = j
              \/ /\ Exists(j)
                 /\ table[j].state = "ERROR_STARTING"
                 /\ table[j].start_error = "ClientError"
        /\ tally[j].start_errors = 0 => (Exists(j) => table[j].state = "CREATED")

C10_Step ==
    \A i \in Invocations :
        /\ (intake[i].pc = "mark" /\ intake'[i] # intake[i]) =>
              /\ intake'[i].pc = "failed"
              /\ table'[intake[i].job_id].state = "ERROR_STARTING"
              /\ table'[intake[i].job_id].start_error = "ClientError"
        /\ (intake[i].pc = "start" /\ intake'[i].pc = "done") =>
              /\ tally'[intake[i].job_id].start_errors = tally[intake[i].job_id].start_errors
              /\ table' = table

C10_ErrorStarting == []C10_Inv /\ [][C10_Step]_vars

\* A start failed, the record is marked and the invocation raised.
C10_Witness ==
    \E i \in Invocations :
        /\ intake[i].pc = "failed"
        /\ intake[i].status = "raised:start_execution"
        /\ table[intake[i].job_id].state = "ERROR_STARTING"
        /\ table[intake[i].job_id].start_error = "ClientError"

\* C5: state_history is append-only. Against an existing job, the history is
\* as long as the number of recorder calls that succeeded on it (M calls, M
\* entries, starting from none), and every step leaves the entries already
\* stored where they were: the old history is a prefix of the new one. Entries
\* that look alike are both kept.
C5_Inv ==
    \A j \in DOMAIN table :
        Len(table[j].state_history) =
            Cardinality({ r \in RecorderCalls :
                            recorder[r].pc = "done" /\ recorder[r].job_id = j })

C5_Step ==
    \A j \in DOMAIN table :
        /\ j \in DOMAIN table'
        /\ Len(table'[j].state_history) >= Len(table[j].state_history)
        /\ SubSeq(table'[j].state_history, 1, Len(table[j].state_history))
              = table[j].state_history

C5_AppendOnly == []C5_Inv /\ [][C5_Step]_vars

\* Two calls with the same target, context and clock reading: two entries.
C5_Witness ==
    \E j \in DOMAIN table :
        /\ Len(table[j].state_history) = 2
        /\ table[j].state_history[1] = table[j].state_history[2]

\* C6: a recorder call applies state, updated_at and the history append in
\* one step. The step of a call appends exactly its entry and sets state to
\* its target and updated_at to its timestamp; no step changes the history
\* without setting the state to the appended entry's target, and none changes
\* the state of a job with a history without appending; so the state always
\* equals the target of the last entry, the last applied call's.
C6_Inv ==
    \A j \in DOMAIN table :
        table[j].state_history # <<>> =>
            table[j].state = table[j].state_history[Len(table[j].state_history)].to

C6_Step ==
    /\ \A r \in RecorderCalls :
          (recorder[r].pc = "update" /\ recorder'[r].pc = "done") =>
            LET j == recorder[r].job_id
                old == ItemOrBlank(j)
            IN  /\ table'[j].state_history = Append(old.state_history, recorder[r].entry)
                /\ table'[j].state = recorder[r].new_state
                /\ table'[j].state = recorder[r].entry.to
                /\ table'[j].updated_at = recorder[r].entry.at
                /\ \A f \in DOMAIN old \ {"state", "updated_at", "state_history"} :
                      table'[j][f] = old[f]
    /\ \A j \in DOMAIN table :
          /\ table'[j].state_history # table[j].state_history =>
                \E r \in RecorderCalls :
                    /\ recorder[r].pc = "update" /\ recorder'[r].pc = "done"
                    /\ recorder[r].job_id = j
          /\ (table[j].state_history # <<>> /\ table'[j].state # table[j].state) =>
                table'[j].state_history # table[j].state_history

C6_AtomicTransition == []C6_Inv /\ [][C6_Step]_vars

\* Two calls with different targets applied, the second one's target current.
C6_Witness ==
    \E j \in DOMAIN table :
        /\ Len(table[j].state_history) = 2
        /\ table[j].state_history[1].to # table[j].state_history[2].to
        /\ table[j].state = table[j].state_history[2].to
        /\ \A r \in RecorderCalls : recorder[r].pc = "done"

\* C7: the identity an invocation derives is a function of the folder of the
\* decoded key: folder_path is the key up to and including its last "/",
\* project_code is what precedes the first "/" of folder_path, job_id is the
\* hash of project_code ":" folder_path; two deliveries get the same job_id
\* exactly when their folder paths are the same.
C7_Identity ==
    /\ \A i \in {1, 2} :
          intake[i].pc = "put" =>
            LET k == intake[i].object_key
                fp == intake[i].folder_path
                pcode == intake[i].project_code
            IN  /\ \E n \in 1..Len(k) :
                      /\ k[n] = "/"
                      /\ \A m \in (n + 1)..Len(k) : k[m] # "/"
                      /\ fp = SubSeq(k, 1, n)
                /\ \E n \in 1..Len(fp) :
                      /\ fp[n] = "/"
                      /\ \A m \in 1..(n - 1) : fp[m] # "/"
                      /\ pcode = SubSeq(fp, 1, n - 1)
                /\ intake[i].job_id = [sha256 |-> pcode \o <<":">> \o fp]
    /\ (intake[1].pc = "put" /\ intake[2].pc = "put") =>
          (intake[1].folder_path = intake[2].folder_path
              <=> intake[1].job_id = intake[2].job_id)

\* Two markers of different names in one nested folder: one job_id.
C7_Witness ==
    /\ intake[1].pc = "put" /\ intake[2].pc = "put"
    /\ intake[1].object_key # intake[2].object_key
    /\ intake[1].folder_path = intake[2].folder_path
    /\ intake[1].job_id = intake[2].job_id
    /\ Len(intake[1].folder_path) > Len(intake[1].project_code) + 1

\* C8: a record that carries a manifest pointer points at an object that is
\* in the object store at that bucket and key (and manifest_s3_uri names the
\* same place); the step of a failed manifest write raises and changes neither
\* the records nor the objects.
HasPointer(j) ==
    \/ table[j].manifest_bucket # BlankItem(j).manifest_bucket
    \/ table[j].manifest_key # BlankItem(j).manifest_key
    \/ table[j].manifest_s3_uri # BlankItem(j).manifest_s3_uri

C8_Inv ==
    \A j \in DOMAIN table :
        HasPointer(j) =>
            /\ <<table[j].manifest_bucket, table[j].manifest_key>> \in DOMAIN objects
            /\ table[j].manifest_s3_uri = S3Uri(table[j].manifest_bucket, table[j].manifest_key)
            /\ objects[<<table[j].manifest_bucket, table[j].manifest_key>>].job_id = j

C8_Step ==
    \A w \in WriterCalls :
        (writer[w].pc = "put" /\ writer'[w].pc # "update" /\ writer'[w] # writer[w]) =>
            /\ writer'[w].pc = "failed"
            /\ writer'[w].status = "raised:manifest_write_failed"
            /\ table' = table
            /\ objects' = objects

C8_PointerMeansObject == []C8_Inv /\ [][C8_Step]_vars

\* One call failed to write, another wrote and recorded the pointer.
C8_Witness ==
    /\ \E w \in WriterCalls : writer[w].status = "raised:manifest_write_failed"
    /\ \E j \in DOMAIN table : HasPointer(j)

\* C9: a call of the Manifest Writer that has persisted its manifest was
\* given a validation result, and one with ok = true.
C9_OnlySuccessfulValidation ==
    \A w \in WriterCalls :
        writer[w].pc = "update" =>
            /\ writer[w].event.validate_result.present
            /\ writer[w].event.validate_result.ok

\* C11: a notification that is malformed, whose decoded key does not end
\* with the marker suffix, or whose decoded key has no "/" is answered with
\* its "error" or "ignored" result at once. The step that takes a delivery
\* changes no record and no execution; it either returns one of the three
\* results or goes on to the conditional create, and goes on only with a
\* well-formed marker key inside a folder.
InvalidResults ==
    { "error:invalid_event_structure", "ignored:not_ingest_done_marker",
      "ignored:file_in_root" }

IsMarkerInFolder(k) ==
    /\ Len(k) >= Len(MarkerSuffix)
    /\ \A n \in 1..Len(MarkerSuffix) : k[Len(k) - Len(MarkerSuffix) + n] = MarkerSuffix[n]
    /\ \E n \in 1..Len(k) : k[n] = "/"

C11_Inv ==
    /\ \A ev \in Deliveries :
          /\ ~ev.wellformed => Begin(ev) = Returned("error:invalid_event_structure")
          /\ (ev.wellformed /\ ~IsMarkerInFolder(unquote_plus(ev.key))) =>
                /\ Begin(ev).pc = "done"
                /\ Begin(ev).status \in
                      {"ignored:not_ingest_done_marker", "ignored:file_in_root"}
    /\ \A i \in Invocations :
          intake[i].pc \in {"put", "dup", "start", "mark"} =>
              intake[i].event.wellformed /\ IsMarkerInFolder(intake[i].object_key)
    /\ \A i \in Invocations :
          intake[i].status \in InvalidResults => intake[i].pc = "done"

C11_Step ==
    \A i \in Invocations :
        (intake[i].pc = "idle" /\ intake'[i] # intake[i]) =>
            /\ table' = table
            /\ executions' = executions
            /\ tally' = tally
            /\ intake'[i].pc \in {"done", "put"}
            /\ intake'[i].pc = "done" => intake'[i].status \in InvalidResults
            /\ intake'[i].pc = "put" =>
                  intake'[i].event.wellformed /\ IsMarkerInFolder(intake'[i].object_key)

C11_InvalidInputFrame == []C11_Inv /\ [][C11_Step]_vars

\* A root marker and a payload object were notified and both were
\* ignored.
C11_Witness ==
    /\ \E i \in Invocations : intake[i].status = "ignored:file_in_root"
    /\ \E i \in Invocations : intake[i].status = "ignored:not_ingest_done_marker"

\* C16 as stated: the timestamps of state_history never decrease along the
\* list, whatever the interleaving of the recorder calls.
C16_TimestampsSorted ==
    \A j \in DOMAIN table :
        \A k \in 1..(Len(table[j].state_history) - 1) :
            table[j].state_history[k].at <= table[j].state_history[k + 1].at

\* No two recorder calls are between their clock reading and their update
\* at the same time.
C16_NoOverlap ==
    Cardinality({ r \in RecorderCalls : recorder[r].pc = "update" }) <= 1

\* C16, amended: when the recorder calls do not overlap (each reads the
\* clock after the update of the one before it), the timestamps of
\* state_history never decrease along the list.
C16_SortedWithoutOverlap == ([]C16_NoOverlap) => ([]C16_TimestampsSorted)

\* Two calls one after the other, the clock advancing in between.
C16_Witness ==
    \E j \in DOMAIN table :
        /\ Len(table[j].state_history) = 2
        /\ table[j].state_history[1].at < table[j].state_history[2].at

\* C17: every record of the store was made by the Intake Gateway's
\* conditional create: it carries project_code, ingest_folder, trigger and
\* created_at, and a recorder or writer call for a job_id without a record
\* leaves the store without one.
C17_RecordsOnlyFromCreate ==
    \A j \in DOMAIN table :
        /\ table[j].created_at # NoTs
        /\ table[j].project_code # NoRef
        /\ table[j].trigger = "_INGEST_DONE"
        /\ table[j].ingest_folder # BlankItem(j).ingest_folder
        /\ table[j].state # None

\* C18: when update_item fails after the manifest was written, the writer
\* raises a failure other than the manifest-write failure; the manifest
\* object stays in the store at the key made of project_code and job_id;
\* the record is left as it was (no new pointer).
DerivedLocation(ev) ==
    << IF config.MANIFEST_BUCKET # None THEN config.MANIFEST_BUCKET ELSE ev.bucket,
       [project_code |-> ev.project_code, dir |-> "_manifests", job_id |-> ev.job_id] >>

C18_Inv ==
    \A w \in WriterCalls :
        /\ writer[w].pc = "update" =>
              /\ DerivedLocation(writer[w].event) \in DOMAIN objects
              /\ objects[DerivedLocation(writer[w].event)].job_id = writer[w].event.job_id
        /\ writer[w].status = "raised:manifest_written_pointer_not_recorded" =>
              writer[w].pc = "failed"

C18_Step ==
    \A w \in WriterCalls :
        (writer[w].pc = "update" /\ writer'[w].pc # "done" /\ writer'[w] # writer[w]) =>
            /\ writer'[w].pc = "failed"
            /\ writer'[w].status = "raised:manifest_written_pointer_not_recorded"
            /\ writer'[w].status # "raised:manifest_write_failed"
            /\ table' = table
            /\ objects' = objects
            /\ DerivedLocation(writer[w].event) \in DOMAIN objects'

C18_PointerNotRecorded == []C18_Inv /\ [][C18_Step]_vars

\* The manifest is in the store, the call failed on the pointer and the
\* record has no pointer.
C18_Witness ==
    /\ \E w \in WriterCalls :
          writer[w].status = "raised:manifest_written_pointer_not_recorded"
    /\ \E j \in DOMAIN table : ~HasPointer(j)
    /\ DOMAIN objects # {}

\* C19: the runs of the writer for one job write one location. The store
\* holds at most one manifest per job, at the key made of project_code and
\* job_id in the destination bucket; a run's write leaves there the manifest
\* of that run, replacing what was there; a run's pointer update leaves the
\* record pointing at that location.
C19_Inv ==
    /\ \A loc \in DOMAIN objects :
          /\ loc = << (IF config.MANIFEST_BUCKET # None
                       THEN config.MANIFEST_BUCKET ELSE "b1"),
                      [project_code |-> objects[loc].project_code, dir |-> "_manifests",
                       job_id |-> objects[loc].job_id] >>
          /\ \A other \in DOMAIN objects :
                objects[other].job_id = objects[loc].job_id => other = loc
    /\ \A j \in DOMAIN table :
          HasPointer(j) =>
              \A loc \in DOMAIN objects :
                  objects[loc].job_id = j =>
                      <<table[j].manifest_bucket, table[j].manifest_key>> = loc

C19_Step ==
    \A w \in WriterCalls :
        /\ (writer[w].pc = "put" /\ writer'[w].pc = "update") =>
              /\ DOMAIN objects' = DOMAIN objects \cup {DerivedLocation(writer[w].event)}
              /\ objects'[DerivedLocation(writer[w].event)].job_id = writer[w].event.job_id
              /\ objects'[DerivedLocation(writer[w].event)].created_at = writer[w].created_at
              /\ objects'[DerivedLocation(writer[w].event)].inventory
                    = writer[w].event.validate_result.inventory
              /\ \A loc \in DOMAIN objects :
                    loc # DerivedLocation(writer[w].event) => objects'[loc] = objects[loc]
        /\ (writer[w].pc = "update" /\ writer'[w].pc = "done") =>
              /\ <<table'[writer[w].event.job_id].manifest_bucket,
                   table'[writer[w].event.job_id].manifest_key>>
                    = DerivedLocation(writer[w].event)
              /\ table'[writer[w].event.job_id].manifest_s3_uri =
                    [scheme |-> "s3", bucket |-> DerivedLocation(writer[w].event)[1],
                     path |-> DerivedLocation(writer[w].event)[2]]
              /\ objects' = objects

C19_ReplaceAtOneLocation == []C19_Inv /\ [][C19_Step]_vars

\* Two runs succeeded at different times; one manifest is in the store.
C19_Witness ==
    /\ \A w \in WriterCalls : writer[w].status = "manifest_written"
    /\ Cardinality(DOMAIN objects) = 1
    /\ \E j \in DOMAIN table :
          \E loc \in DOMAIN objects :
              /\ <<table[j].manifest_bucket, table[j].manifest_key>> = loc
              /\ objects[loc].created_at # table[j].updated_at

\* C21 as stated: no write moves last_seen_at backwards, whatever the
\* interleaving of the invocations.
C21_NeverBackwards ==
    [][\A j \in DOMAIN table :
          j \in DOMAIN table' => table'[j].last_seen_at >= table[j].last_seen_at]_vars

\* The invocations that have read the clock for a write of last_seen_at
\* (lines 85 and 134) which is not applied yet.
PendingSeenWrites == { i \in Invocations : intake[i].pc \in {"dup", "mark"} }

C21_NoOverlap == Cardinality(PendingSeenWrites) <= 1

\* The value a pending write carries is not below the stored one.
C21_PendingNotBehind ==
    \A i \in PendingSeenWrites :
        Exists(intake[i].job_id) => intake[i].ts >= table[intake[i].job_id].last_seen_at

\* C21, amended: when the writes of last_seen_at do not overlap (no two
\* invocations are between their clock reading and their update at the same
\* time), every write stores a value not below the one it replaces.
C21_ForwardWithoutOverlap == ([]C21_NoOverlap) => ([]C21_PendingNotBehind)

\* A duplicate delivery has moved last_seen_at past the time of creation.
C21_Witness ==
    \E j \in DOMAIN table :
        /\ tally[j].duplicate >= 1
        /\ table[j].last_seen_at > table[j].created_at
        /\ \A i \in Invocations : intake[i].pc \in {"idle", "done"}

\* C22: each optional context field (ruleset version, project code,
\* trigger, execution identifier, entry time) is in the appended history
\* entry with its given value when the input carries it, under either
\* payload shape, and is absent from the entry (no null placeholder) when
\* the input does not carry it: no entry of a stored history holds a null
\* under a context field's name.
ContextFields == {"ruleset_version", "project_code", "trigger", "execution_id", "entered_time"}

\* The value the event gives for a context field, under either shape.
Given(ev, f) ==
    CASE f = "ruleset_version" -> Or(ev.policy_ruleset_version, ev.ruleset_version)
      [] f = "project_code" -> Or(ev.policy_project_code, ev.project_code)
      [] f = "trigger" -> Or(ev.impl_event_trigger, ev.trigger)
      [] f = "execution_id" -> Or(ev.impl_orchestration_execution_id, ev.execution_id)
      [] f = "entered_time" -> Or(ev.impl_orchestration_entered_time, ev.entered_time)

C22_ContextCarriedOrAbsent ==
    /\ \A ev \in RecorderEvents :
          \A f \in ContextFields :
              Given(ev, f) # None => /\ f \in DOMAIN HistoryEntry(ev, clock)
                                     /\ HistoryEntry(ev, clock)[f] = Given(ev, f)
    /\ \A j \in DOMAIN table :
          \A k \in 1..Len(table[j].state_history) :
              \A f \in ContextFields :
                  f \in DOMAIN table[j].state_history[k] =>
                      table[j].state_history[k][f] # None

\* C23: the identity fields of a record (job_id, project_code,
\* ingest_folder, trigger, created_at) are never changed once the record is
\* there, by any step of any component; and a delivery that resolves to the
\* job names the folder (as stated: the bucket and the folder) of the
\* stored ingest_folder.
C23_Step ==
    \A j \in DOMAIN table :
        /\ j \in DOMAIN table'
        /\ table'[j].job_id = table[j].job_id
        /\ table'[j].project_code = table[j].project_code
        /\ table'[j].ingest_folder = table[j].ingest_folder
        /\ table'[j].trigger = table[j].trigger
        /\ table'[j].created_at = table[j].created_at

\* The invocations that have derived a job_id and not returned.
ResolvedInvocations ==
    { i \in {1, 2} : intake[i].pc \in {"put", "dup", "start", "mark"} }

C23_SameFolder ==
    /\ \A j \in DOMAIN table :
          /\ table[j].job_id = j
          /\ table[j].job_id =
                generate_job_id(table[j].project_code, table[j].ingest_folder.path)
    /\ \A i \in ResolvedInvocations :
          Exists(intake[i].job_id) =>
              table[intake[i].job_id].ingest_folder.path = intake[i].folder_path

C23_SameBucket ==
    \A i \in ResolvedInvocations :
        Exists(intake[i].job_id) =>
            table[intake[i].job_id].ingest_folder.bucket = intake[i].bucket

\* C23 as stated.
C23_ImmutableSameBucketAndFolder ==
    [][C23_Step]_vars /\ []C23_SameFolder /\ []C23_SameBucket

\* C23, amended: the identity fields never change, and a delivery that
\* resolves to the job names the folder path of the stored ingest_folder;
\* its bucket can be another one.
C23_ImmutableSameFolder == [][C23_Step]_vars /\ []C23_SameFolder

\* Every component has written the record of a job, and a delivery from
\* the other bucket has resolved to it.
C23_Witness ==
    \E j \in DOMAIN table :
        /\ tally[j].duplicate >= 1
        /\ table[j].state = "VALIDATING"
        /\ HasPointer(j)
        /\ \E i \in ResolvedInvocations :
              /\ intake[i].job_id = j
              /\ intake[i].bucket # table[j].ingest_folder.bucket

(***************************************************************************)
(* Properties of the Folder Validator.                                     *)
(***************************************************************************)
\* What a full result was computed from: the first MAX_KEYS objects of the
\* folder, and those of them that are not the marker.
Listed ==
    SubSeq(folder, 1, IF Len(folder) < validator_env.MAX_KEYS
                      THEN Len(folder) ELSE validator_env.MAX_KEYS)

PayloadIndices == { k \in 1..Len(Listed) : Listed[k].Key # KeyA }

SizeDefect(o) == o.Size = NoSize \/ (~validator_env.ALLOW_ZERO_BYTE /\ o.Size = 0)

Defective(o) == o.Key = <<>> \/ SizeDefect(o) \/ o.ETag = None

DefectiveCount == Cardinality({ k \in PayloadIndices : Defective(Listed[k]) })

Violations(o) ==
    IF o.Key = <<>> THEN 1
    ELSE (IF SizeDefect(o) THEN 1 ELSE 0) + (IF o.ETag = None THEN 1 ELSE 0)

RECURSIVE ViolationCount(_)
ViolationCount(indices) ==
    IF indices = {} THEN 0
    ELSE LET k == CHOOSE x \in indices : TRUE
         IN  Violations(Listed[k]) + ViolationCount(indices \ {k})

Validated == validator.pc = "done" /\ validator.result.has_inventory

\* C12 as stated: a validation returns as many errors as there are defective
\* payload objects.
C12_OneErrorPerDefectiveObject ==
    Validated => Len(validator.result.errors) = DefectiveCount

\* C12, amended: with a payload that is not empty, a validation returns one
\* error per violation, over all payload objects: an object without Key
\* gives one error; any other gives one for a missing or zero Size and one
\* for a missing ETag, each naming its key; a sound object gives none. So
\* the errors are at least K and at most 2K for K defective objects, and the
\* verdict is ok exactly when K = 0.
C12_OneErrorPerViolation ==
    (Validated /\ PayloadIndices # {}) =>
        LET errors == validator.result.errors
        IN  /\ Len(errors) = ViolationCount(PayloadIndices)
            /\ DefectiveCount <= Len(errors)
            /\ Len(errors) <= 2 * DefectiveCount
            /\ validator.result.ok <=> DefectiveCount = 0
            /\ \A k \in PayloadIndices :
                  Listed[k].Key # <<>> =>
                      Cardinality({ e \in 1..Len(errors) : errors[e].key = Listed[k].Key })
                          = Violations(Listed[k])
            /\ Cardinality({ e \in 1..Len(errors) : errors[e].detail = "missing Key" })
                  = Cardinality({ k \in PayloadIndices : Listed[k].Key = <<>> })

\* Two defective objects, one of them with two violations: three errors.
C12_Witness ==
    /\ Validated
    /\ DefectiveCount = 2
    /\ Len(validator.result.errors) = 3

\* C13: a validation of a listing that is not empty and holds no object
\* other than the marker ends with ok = false and reason EMPTY_FOLDER.
C13_EmptyFolderReason ==
    (Validated /\ Len(Listed) > 0 /\ PayloadIndices = {}) =>
        /\ validator.result.ok = FALSE
        /\ validator.result.reason = "EMPTY_FOLDER"

\* C14: a listing of zero objects is answered ok = false with reason
\* FOLDER_NOT_FOUND_OR_EMPTY, and no listing that holds an object is.
C14_FolderNotFound ==
    (validator.pc = "done" /\ validator.result.reason # "INVALID_INPUT") =>
        /\ Len(folder) = 0 =>
              /\ validator.result.ok = FALSE
              /\ validator.result.reason = "FOLDER_NOT_FOUND_OR_EMPTY"
              /\ ~validator.result.has_inventory
        /\ validator.result.reason = "FOLDER_NOT_FOUND_OR_EMPTY" => Len(folder) = 0

\* The empty folder was validated.
C14_Witness ==
    /\ validator.pc = "done"
    /\ validator.result.reason = "FOLDER_NOT_FOUND_OR_EMPTY"
    /\ folder = <<>>

\* C15: the inventory of a validation has exactly one entry for each listed
\* object that has a key other than the marker's, with that object's size,
\* fingerprint and date, has no entry for the marker, and is in
\* non-decreasing key order whatever the listing order was. It is fixed by
\* the listed objects alone: the same contents give the same inventory, on
\* every run and however the store cut the pages.
KeyedIndices == { k \in PayloadIndices : Listed[k].Key # <<>> }

\* The payload names of folder a/ in key order.
NameRank == [c \in {"1", "2", "4", "5", "6"} |->
                CHOOSE n \in 1..5 : <<"1", "2", "4", "5", "6">>[n] = c]

C15_Inventory ==
    Validated =>
        LET inventory == validator.result.inventory
        IN  /\ Len(inventory) = Cardinality(KeyedIndices)
            /\ \A k \in KeyedIndices :
                  \E e \in 1..Len(inventory) :
                      /\ inventory[e].key = Listed[k].Key
                      /\ inventory[e].etag = Listed[k].ETag
                      /\ inventory[e].size =
                            (IF Listed[k].Size = NoSize THEN 0 ELSE Listed[k].Size)
                      /\ inventory[e].last_modified = [iso |-> Listed[k].LastModified]
                      /\ \A d \in 1..Len(inventory) :
                            inventory[d].key = Listed[k].Key => d = e
            /\ \A e \in 1..Len(inventory) : inventory[e].key # KeyA
            /\ \A e \in 1..Len(inventory) :
                  \A d \in 1..Len(inventory) :
                      e < d => NameRank[inventory[e].key[4]] <= NameRank[inventory[d].key[4]]
            /\ validator.result.stats.payload_file_count = Len(inventory)

\* The store listed f2 before f1; both are in the inventory.
C15_Witness ==
    /\ Validated
    /\ Len(validator.result.inventory) = 2
    /\ Listed[1].Key = FileKey("2")
    /\ Listed[2].Key = FileKey("1")

\* C20: listing ends and respects the cap. While listing, the items are the
\* objects from the start of the folder up to the token, fewer than
\* MAX_KEYS, and every request so far returned at least one; the listing
\* handed to validation is exactly the first min(total, MAX_KEYS) objects of
\* the folder, after at most that many requests (one for an empty folder);
\* a folder cut by the cap is validated like any other (a full result over
\* the truncated set, never a rejection); and a listing that has begun ends
\* with a result.
C20_Inv ==
    /\ validator.pc = "listing" =>
          /\ validator.items = SubSeq(folder, 1, validator.token)
          /\ Len(validator.items) < validator_env.MAX_KEYS
          /\ validator.requests <= validator.token
    /\ validator.pc = "validate" =>
          /\ validator.objects = Listed
          /\ validator.requests >= 1
          /\ validator.requests <= (IF Len(Listed) = 0 THEN 1 ELSE Len(Listed))
    /\ (Validated /\ Len(folder) > validator_env.MAX_KEYS) =>
          /\ validator.result.reason \in {"OK", "FAILED_VALIDATION"}
          /\ validator.result.stats.object_count_including_marker = validator_env.MAX_KEYS
          /\ validator.result.stats.max_keys_cap = validator_env.MAX_KEYS
    /\ (validator.pc = "done" /\ validator.result.reason # "INVALID_INPUT"
          /\ Len(folder) > 0) => validator.result.has_inventory

C20_ListingTerminates ==
    /\ []C20_Inv
    /\ (validator.pc = "listing") ~> (validator.pc = "done")

\* The cap was hit on the second page, with objects left in the folder.
C20_Witness ==
    /\ validator.pc = "validate"
    /\ validator.requests = 2
    /\ Len(validator.objects) = validator_env.MAX_KEYS
    /\ Len(folder) > validator_env.MAX_KEYS

\* C24: a passing verdict comes with a sound inventory. When the validator
\* returns ok = true, the reason is OK, there are no errors, the inventory
\* is not empty, every item of it has a key, a fingerprint and (unless
\* zero-byte objects are allowed) a size above 0, and payload_file_count is
\* the number of listed objects other than the marker; when it returns
\* ok = false there is at least one error.
C24_SoundVerdict ==
    validator.pc = "done" =>
        LET result == validator.result
        IN  /\ result.ok =>
                  /\ result.reason = "OK"
                  /\ result.errors = <<>>
                  /\ result.has_inventory
                  /\ Len(result.inventory) >= 1
                  /\ \A e \in 1..Len(result.inventory) :
                        /\ result.inventory[e].key # <<>>
                        /\ result.inventory[e].etag # None
                        /\ result.inventory[e].size >= 0
                        /\ ~validator_env.ALLOW_ZERO_BYTE => result.inventory[e].size > 0
                  /\ result.stats.payload_file_count = Cardinality(PayloadIndices)
                  /\ result.stats.payload_file_count = Len(result.inventory)
            /\ ~result.ok =>
                  /\ Len(result.errors) >= 1
                  /\ result.reason # "OK"

\* A passing verdict on a listing of the marker and one sound file.
C24_Witness ==
    /\ validator.pc = "done"
    /\ validator.result.ok
    /\ Len(Listed) = 2
    /\ \E k \in 1..Len(Listed) : Listed[k].Key = KeyA
    /\ validator.result.stats.payload_file_count = 1

=============================================================================
